---- MODULE Spec2Model ----
(***************************************************************************)
(* aws-mp-utils: the change-set submission loop (start_mp_change_set), the *)
(* conflict-id extraction, the restrict-version change document, the       *)
(* delivery-option lookup and the layered configuration (get_config).      *)
(*                                                                         *)
(* Strings the code inspects character by character (error messages, JSON  *)
(* text) are sequences of one-character strings.                           *)
(***************************************************************************)
EXTENDS Integers, Sequences, FiniteSets, TLC

VARIABLES
    \* ---- start_mp_change_set (changeset.py 143-198) ----
    pc,                        \* position inside start_mp_change_set
    change_set,                \* parameter change_set
    max_rechecks_arg,          \* parameter max_rechecks as passed by the caller
    max_rechecks,              \* the local the loop decrements
    conflict_wait_period,      \* parameter conflict_wait_period
    retries,                   \* outer attempt counter
    conflicting_changeset,     \* flag set in the except branch
    conflicting_error_message, \* str(error) of the latest conflict
    calls,                     \* client.start_change_set calls, with the answer
    sleeps,                    \* time.sleep calls: [period, after], after = calls made so far
    outcome,                   \* how start_mp_change_set ended
    \* ---- get_ongoing_change_id_from_error (changeset.py 201-211) ----
    message,                   \* the message passed in
    pieces,                    \* number of pieces message was assembled from
    extracted,                 \* the call of the extraction on message, if made
    \* ---- create_restrict_version_change_doc (changeset.py 63-84) ----
    docs,                      \* calls of the builder so far: inputs and result
    \* ---- get_image_delivery_option_id (changeset.py 214-266) ----
    entity,                    \* DetailsDocument of the describe_entity answer
    ami_id,                    \* parameter ami_id
    lookup,                    \* the call of the lookup, if made, and its result
    \* ---- get_config (cli_utils.py 85-120) ----
    cli_args,                  \* the shared options given on the command line
    files,                     \* path -> the YAML file there, if any
    context_obj,               \* context.obj, filled by process_shared_options
    config_data,               \* the call of get_config, if made, and its result
    \* ---- get_change_set_status (changeset.py 48-60) ----
    change_set_response,       \* the describe_change_set answer
    status,                    \* the call of get_change_set_status, if made
    \* ---- get_helm_delivery_option_id (container.py 30-68) ----
    helm_entity,               \* DetailsDocument of the describe_entity answer
    version_title,             \* parameter version_title
    helm_lookup,               \* the call of the lookup, if made, and its result
    \* ---- restrict_version (scripts/image.py 83-142) ----
    cmd_pc,                    \* position inside the command
    flags,                     \* --max-rechecks and --conflict-wait-period
    lookup_answer,             \* how get_image_delivery_option_id ended
    options,                   \* keyword arguments passed to start_mp_change_set
    submit_answer,             \* how start_mp_change_set ended
    output,                    \* lines echoed so far
    exit_code,                 \* exit code of the command, -1 while it runs
    trace,                     \* the calls made, in order
    \* ---- gen_*_delivery_options_changeset (changeset.py, container.py) ----
    gen_args,                  \* the arguments both modules' functions get
    gen_called,                \* "none", "add" or "update"
    changeset_result,          \* what the function of changeset.py returned
    container_result           \* what the function of container.py returned

submitVars == <<pc, change_set, max_rechecks_arg, max_rechecks,
                conflict_wait_period, retries, conflicting_changeset,
                conflicting_error_message, calls, sleeps, outcome>>
extractVars == <<message, pieces, extracted>>
docVars == <<docs>>
lookupVars == <<entity, ami_id, lookup>>
configVars == <<cli_args, files, context_obj, config_data>>
statusVars == <<change_set_response, status>>
helmVars == <<helm_entity, version_title, helm_lookup>>
commandVars == <<cmd_pc, flags, lookup_answer, options, submit_answer, output,
                 exit_code, trace>>
genVars == <<gen_args, gen_called, changeset_result, container_result>>
vars == <<submitVars, extractVars, docVars, lookupVars, configVars,
          statusVars, helmVars, commandVars, genVars>>

\* everything but one part
exceptSubmit ==
    <<extractVars, docVars, lookupVars, configVars,
      statusVars, helmVars, commandVars, genVars>>
exceptExtract ==
    <<submitVars, docVars, lookupVars, configVars,
      statusVars, helmVars, commandVars, genVars>>
exceptDoc ==
    <<submitVars, extractVars, lookupVars, configVars,
      statusVars, helmVars, commandVars, genVars>>
exceptLookup ==
    <<submitVars, extractVars, docVars, configVars,
      statusVars, helmVars, commandVars, genVars>>
exceptConfig ==
    <<submitVars, extractVars, docVars, lookupVars,
      statusVars, helmVars, commandVars, genVars>>
exceptStatus ==
    <<submitVars, extractVars, docVars, lookupVars, configVars,
      helmVars, commandVars, genVars>>
exceptHelm ==
    <<submitVars, extractVars, docVars, lookupVars, configVars,
      statusVars, commandVars, genVars>>
exceptCommand ==
    <<submitVars, extractVars, docVars, lookupVars, configVars,
      statusVars, helmVars, genVars>>
exceptGen ==
    <<submitVars, extractVars, docVars, lookupVars, configVars,
      statusVars, helmVars, commandVars>>

----------------------------------------------------------------------------
(* Bounds of the model *)

MaxRechecks == 5          \* largest max_rechecks a caller passes
MaxWait == 1              \* largest conflict_wait_period a caller passes
MaxPieces == 5            \* pieces a message is assembled from
MaxDocs == 2              \* documents built in a row
MaxIdLen == 2             \* length of an identifier given to the document builder
MaxVersions == 2          \* versions in an entity document
MaxSources == 3           \* sources in an entity document, all versions together
MaxOptions == 2           \* delivery options in an entity document
MaxStatusLen == 3         \* length of a made-up Status text
MaxHelmOptions == 3       \* delivery options in a container product's document
MaxFlag == 2              \* value of --max-rechecks, --conflict-wait-period
MaxServices == 2          \* length of the list compatible_services

----------------------------------------------------------------------------
(* Character sequences *)

Rep(c, n) == [i \in 1..n |-> c]

\* the literal text of the pattern in re_change_id
ChangeSetsLiteral ==
    <<"c", "h", "a", "n", "g", "e", " ", "s", "e", "t", "s", ":", " ">>

\* \w{25}
ChangeIdLen == 25

\* \w : the word characters that occur in the modelled messages
WordChars == {"a", "b", "c", "e", "g", "h", "n", "s", "t", "_", "1"}

IsWord(c) == c \in WordChars

\* Python's None, distinct from every character sequence
PyNone == <<"None">>

----------------------------------------------------------------------------
(* get_ongoing_change_id_from_error *)

\* the pattern r'change sets: (\w{25})' matches with its first character at i
MatchAt(m, i) ==
    LET n == Len(ChangeSetsLiteral) IN
    /\ i + n + ChangeIdLen - 1 <= Len(m)
    /\ SubSeq(m, i, i + n - 1) = ChangeSetsLiteral
    /\ \A j \in (i + n)..(i + n + ChangeIdLen - 1) : IsWord(m[j])

\* re.search: the leftmost position where the pattern matches, 0 for no match
re_search(m) ==
    IF \E i \in 1..Len(m) : MatchAt(m, i)
    THEN CHOOSE i \in 1..Len(m) :
             MatchAt(m, i) /\ \A k \in 1..(i - 1) : ~MatchAt(m, k)
    ELSE 0

\* variant: group(0), the whole match, is taken
group1_WholeMatch(m, i) ==
    SubSeq(m, i, i + Len(ChangeSetsLiteral) + ChangeIdLen - 1)

\* match.group(1)
group1(m, i) ==
    SubSeq(m, i + Len(ChangeSetsLiteral),
              i + Len(ChangeSetsLiteral) + ChangeIdLen - 1)

ExtractErrorText(m) ==
    <<"Unable to extract changeset id from aws err response: ">> \o m

NoError == [type |-> "none", code |-> "", text |-> <<>>]

AWSMPUtilsException(text) ==
    [type |-> "AWSMPUtilsException", code |-> "", text |-> text]

\* [raised |-> FALSE, value |-> id] or [raised |-> TRUE, error |-> exception]
get_ongoing_change_id_from_error(m) ==
    LET match == re_search(m) IN
    IF match # 0
    THEN [raised |-> FALSE, value |-> group1(m, match), error |-> NoError]
    ELSE [raised |-> TRUE, value |-> <<>>,
          error |-> AWSMPUtilsException(ExtractErrorText(m))]

----------------------------------------------------------------------------
(* json.dumps as create_restrict_version_change_doc uses it *)

Quote == "\""
Backslash == "\\"

\* variant: no character is escaped
EscapeChar_Verbatim(c) == <<c>>

\* json.dumps of one character inside a string
EscapeChar(c) ==
    IF c = Quote THEN <<Backslash, Quote>>
    ELSE IF c = Backslash THEN <<Backslash, Backslash>>
    ELSE <<c>>

RECURSIVE EscapeString(_)
EscapeString(s) ==
    IF s = <<>> THEN <<>> ELSE EscapeChar(Head(s)) \o EscapeString(Tail(s))

\* json.dumps of a str, or of None
JsonValue(v) ==
    IF v = PyNone THEN <<"n", "u", "l", "l">>
    ELSE <<Quote>> \o EscapeString(v) \o <<Quote>>

DeliveryOptionIdsKey ==
    <<"D", "e", "l", "i", "v", "e", "r", "y", "O", "p", "t", "i", "o", "n",
      "I", "d", "s">>

\* json.dumps({'DeliveryOptionIds': [delivery_option_id]})
JsonDumpsDetails(delivery_option_id) ==
    <<"{">> \o JsonValue(DeliveryOptionIdsKey) \o <<":", " ">>
        \o <<"[">> \o JsonValue(delivery_option_id) \o <<"]">> \o <<"}">>

create_restrict_version_change_doc(entity_id, delivery_option_id) ==
    [ChangeType |-> "RestrictDeliveryOptions",
     Entity |-> [Type |-> "AmiProduct@1.0", Identifier |-> entity_id],
     Details |-> JsonDumpsDetails(delivery_option_id)]

----------------------------------------------------------------------------
(* The client of start_mp_change_set and what it may answer *)

TokenA == Rep("a", ChangeIdLen)
TokenB == Rep("b", ChangeIdLen)
Tokens == {TokenA, TokenB}

\* "... locked by change sets - change sets: <token>", the shape of the
\* message of a ResourceInUseException
LockedBy(token) ==
    <<"c", "h", "a", "n", "g", "e", " ", "s", "e", "t", "s", " ", "-", " ">>
        \o ChangeSetsLiteral \o token

\* a conflict message the pattern does not match
Unparsable == <<"c", "h", "a", "n", "g", "e", " ", "s", "e", "t", "s", " ">>

\* a conflict message whose token is one character short
ShortToken == ChangeSetsLiteral \o Rep("a", ChangeIdLen - 1)

ConflictTexts == {LockedBy(TokenA), LockedBy(TokenB), Unparsable, ShortToken}

ClientError(code, text) == [type |-> "ClientError", code |-> code, text |-> text]

ConflictErrors == {ClientError("ResourceInUseException", t) : t \in ConflictTexts}

\* failures that are not a conflict: another ClientError, and an exception
\* that is no ClientError at all
OtherErrors ==
    {ClientError("AccessDeniedException", <<"d", "e", "n", "i", "e", "d">>),
     [type |-> "EndpointConnectionError", code |-> "", text |-> <<"d", "n", "s">>]}

NoResponse == [ChangeSetId |-> "none"]
Responses == {[ChangeSetId |-> "cs1"], [ChangeSetId |-> "cs2"]}

\* str(error) of a botocore ClientError: a preamble naming the code and the
\* operation, then the message
StrError(error) == <<"(", error.code, ")", ":", " ">> \o error.text

ChangeSets ==
    {<<create_restrict_version_change_doc(<<"e", "1">>, <<"d", "1">>)>>,
     <<create_restrict_version_change_doc(<<"e", "1">>, <<"d", "1">>),
       create_restrict_version_change_doc(<<"e", "1">>, PyNone)>>}

NoOutcome == [kind |-> "none", response |-> NoResponse, error |-> NoError]
Returned(response) == [kind |-> "return", response |-> response, error |-> NoError]
Raised(error) == [kind |-> "raise", response |-> NoResponse, error |-> error]

GenericText == <<"Unable to complete successfully the mp change.">>
TimedOutText(ongoing_change_id) ==
    GenericText \o <<" Timed out waiting for ">> \o ongoing_change_id
        \o <<" to finish.">>

----------------------------------------------------------------------------
(* States of the parts a specification leaves alone *)

NoExtract ==
    [called |-> FALSE,
     result |-> [raised |-> FALSE, value |-> <<>>, error |-> NoError]]

SubmitIdle ==
    /\ pc = "idle" /\ change_set = <<>> /\ max_rechecks_arg = 0
    /\ max_rechecks = 0 /\ conflict_wait_period = 0 /\ retries = 0
    /\ conflicting_changeset = FALSE /\ conflicting_error_message = <<>>
    /\ calls = <<>> /\ sleeps = <<>> /\ outcome = NoOutcome
ExtractIdle == message = <<>> /\ pieces = 0 /\ extracted = NoExtract
DocIdle == docs = <<>>
NoLookup == [called |-> FALSE, result |-> PyNone]
LookupIdle == entity = <<>> /\ ami_id = <<>> /\ lookup = NoLookup
NoConfig == [called |-> FALSE, exit_code |-> 0, data |-> <<>>]
ConfigIdle ==
    /\ cli_args = <<>> /\ files = <<>> /\ context_obj = <<>>
    /\ config_data = NoConfig

\* a describe_change_set answer: None, or a dict given by its fields
NoneResponse == [none |-> TRUE, fields |-> <<>>]
NoStatus == [called |-> FALSE, result |-> PyNone]
StatusIdle == change_set_response = NoneResponse /\ status = NoStatus

NoHelmLookup == [called |-> FALSE, raised |-> FALSE, result |-> PyNone]
HelmIdle ==
    helm_entity = <<>> /\ version_title = <<>> /\ helm_lookup = NoHelmLookup

\* an integer option of the command: not given (None), or given with a value
NoFlag == [given |-> FALSE, value |-> 0]
NoAnswer == [kind |-> "none", value |-> PyNone, text |-> <<>>]
NoKeywords == [max_rechecks |-> NoFlag, conflict_wait_period |-> NoFlag]
NoOptions ==
    [called |-> FALSE, change_set |-> <<>>, keywords |-> NoKeywords,
     max_rechecks |-> 0, conflict_wait_period |-> 0]
CommandIdle ==
    /\ cmd_pc = "idle"
    /\ flags = [max_rechecks |-> NoFlag, conflict_wait_period |-> NoFlag,
                no_color |-> FALSE]
    /\ lookup_answer = NoAnswer
    /\ options = NoOptions
    /\ submit_answer = NoOutcome
    /\ output = <<>>
    /\ exit_code = -1
    /\ trace = <<>>

\* a change document not built yet
NoDocument ==
    [ChangeType |-> "", Entity |-> [Type |-> "", Identifier |-> <<>>],
     Details |-> <<>>]
\* the parameters of the four functions, none of them set
NoArguments ==
    [entity_id |-> <<>>, version_title |-> <<>>, release_notes |-> <<>>,
     delivery_option_title |-> <<>>, compatible_services |-> <<>>,
     container_images |-> <<>>, helm_chart_uri |-> <<>>,
     helm_chart_description |-> <<>>, usage_instructions |-> <<>>,
     quick_launch_enabled |-> FALSE,
     marketplace_service_account_name |-> <<>>, release_name |-> <<>>,
     namespace |-> <<>>, override_parameters |-> <<>>,
     delivery_option_id |-> <<>>]
GenIdle ==
    /\ gen_args = NoArguments
    /\ gen_called = "none"
    /\ changeset_result = <<>>
    /\ container_result = NoDocument

\* the parts the specifications of the first five parts leave alone
RestIdle == StatusIdle /\ HelmIdle /\ CommandIdle /\ GenIdle

----------------------------------------------------------------------------
(* start_mp_change_set *)

\* while retries > 0: ... ; after the loop the generic error (158-161, 196-198)
LoopHead ==
    /\ pc = "loop"
    /\ IF retries > 0
       THEN /\ conflicting_changeset' = FALSE
            /\ conflicting_error_message' = <<>>
            /\ pc' = "call"
            /\ outcome' = outcome
       ELSE /\ outcome' = Raised(AWSMPUtilsException(GenericText))
            /\ pc' = "done"
            /\ UNCHANGED <<conflicting_changeset, conflicting_error_message>>
    /\ UNCHANGED <<change_set, max_rechecks_arg, max_rechecks,
                   conflict_wait_period, retries, calls, sleeps>>

\* variant: only the first change document is submitted
StartChangeSetCall_FirstDocOnly(answer) ==
    [Catalog |-> "AWSMarketplace", ChangeSet |-> <<Head(change_set)>>,
     answer |-> answer]

\* the call the try block makes (163-166), with the client's answer
StartChangeSetCall(answer) ==
    [Catalog |-> "AWSMarketplace", ChangeSet |-> change_set, answer |-> answer]

\* the call succeeds: return response (167)
CallReturns ==
    /\ pc = "call"
    /\ \E response \in Responses :
        /\ calls' = Append(calls, StartChangeSetCall(Returned(response)))
        /\ outcome' = Returned(response)
    /\ pc' = "done"
    /\ UNCHANGED <<change_set, max_rechecks_arg, max_rechecks,
                   conflict_wait_period, retries, conflicting_changeset,
                   conflicting_error_message, sleeps>>

\* variant: the error code is kept instead of str(error)
CallConflicts_KeepsCode ==
    /\ pc = "call"
    /\ \E error \in ConflictErrors :
        /\ calls' = Append(calls, StartChangeSetCall(Raised(error)))
        /\ conflicting_changeset' = TRUE
        /\ conflicting_error_message' = <<error.code>>
    /\ pc' = "after_try"
    /\ UNCHANGED <<change_set, max_rechecks_arg, max_rechecks,
                   conflict_wait_period, retries, sleeps, outcome>>

\* the call raises ClientError with code ResourceInUseException (169-173)
CallConflicts ==
    /\ pc = "call"
    /\ \E error \in ConflictErrors :
        /\ calls' = Append(calls, StartChangeSetCall(Raised(error)))
        /\ conflicting_changeset' = TRUE
        /\ conflicting_error_message' = StrError(error)
    /\ pc' = "after_try"
    /\ UNCHANGED <<change_set, max_rechecks_arg, max_rechecks,
                   conflict_wait_period, retries, sleeps, outcome>>

\* variant: the else branch of the except clause does not re-raise
CallFails_Swallowed ==
    /\ pc = "call"
    /\ \E error \in OtherErrors :
        calls' = Append(calls, StartChangeSetCall(Raised(error)))
    /\ pc' = "after_try"
    /\ UNCHANGED <<change_set, max_rechecks_arg, max_rechecks,
                   conflict_wait_period, retries, conflicting_changeset,
                   conflicting_error_message, sleeps, outcome>>

\* the call raises anything else: re-raised (174-175) or never caught
CallFails ==
    /\ pc = "call"
    /\ \E error \in OtherErrors :
        /\ calls' = Append(calls, StartChangeSetCall(Raised(error)))
        /\ outcome' = Raised(error)
    /\ pc' = "done"
    /\ UNCHANGED <<change_set, max_rechecks_arg, max_rechecks,
                   conflict_wait_period, retries, conflicting_changeset,
                   conflicting_error_message, sleeps>>

\* variant: a conflict consumes an outer attempt as well
AfterTry_ConsumesAttempt ==
    /\ pc = "after_try"
    /\ IF conflicting_changeset
       THEN /\ conflicting_changeset' = FALSE
            /\ pc' = "sleep"
            /\ retries' = retries - 1
       ELSE /\ retries' = retries - 1
            /\ pc' = "loop"
            /\ conflicting_changeset' = conflicting_changeset
    /\ UNCHANGED <<change_set, max_rechecks_arg, max_rechecks,
                   conflict_wait_period, conflicting_error_message, calls,
                   sleeps, outcome>>

\* if conflicting_changeset: ... else: retries -= 1 (177-178, 193-194)
AfterTry ==
    /\ pc = "after_try"
    /\ IF conflicting_changeset
       THEN /\ conflicting_changeset' = FALSE
            /\ pc' = "sleep"
            /\ retries' = retries
       ELSE /\ retries' = retries - 1
            /\ pc' = "loop"
            /\ conflicting_changeset' = conflicting_changeset
    /\ UNCHANGED <<change_set, max_rechecks_arg, max_rechecks,
                   conflict_wait_period, conflicting_error_message, calls,
                   sleeps, outcome>>

\* variant: a period of 0 is taken as "not set" and the default slept
Sleep_DefaultOnZero ==
    /\ pc = "sleep"
    /\ sleeps' = Append(sleeps,
                        [period |-> IF conflict_wait_period = 0
                                    THEN 1800 ELSE conflict_wait_period,
                         after |-> Len(calls)])
    /\ pc' = "recheck"
    /\ UNCHANGED <<change_set, max_rechecks_arg, max_rechecks,
                   conflict_wait_period, retries, conflicting_changeset,
                   conflicting_error_message, calls, outcome>>

\* variant: no sleep when the rechecks are about to run out
Sleep_SkippedBeforeGivingUp ==
    /\ pc = "sleep"
    /\ sleeps' = IF max_rechecks <= 1 THEN sleeps
                 ELSE Append(sleeps, [period |-> conflict_wait_period,
                                      after |-> Len(calls)])
    /\ pc' = "recheck"
    /\ UNCHANGED <<change_set, max_rechecks_arg, max_rechecks,
                   conflict_wait_period, retries, conflicting_changeset,
                   conflicting_error_message, calls, outcome>>

\* time.sleep(conflict_wait_period) (179)
Sleep ==
    /\ pc = "sleep"
    /\ sleeps' = Append(sleeps, [period |-> conflict_wait_period,
                                 after |-> Len(calls)])
    /\ pc' = "recheck"
    /\ UNCHANGED <<change_set, max_rechecks_arg, max_rechecks,
                   conflict_wait_period, retries, conflicting_changeset,
                   conflicting_error_message, calls, outcome>>

\* variant: the exhaustion test is off by one (max_rechecks <= 1)
Recheck_OffByOne ==
    /\ pc = "recheck"
    /\ max_rechecks' = max_rechecks - 1
    /\ IF max_rechecks' <= 1
       THEN LET r == get_ongoing_change_id_from_error(conflicting_error_message)
            IN /\ outcome' = IF r.raised
                             THEN Raised(r.error)
                             ELSE Raised(AWSMPUtilsException(TimedOutText(r.value)))
               /\ pc' = "done"
       ELSE /\ pc' = "loop"
            /\ outcome' = outcome
    /\ UNCHANGED <<change_set, max_rechecks_arg, conflict_wait_period,
                   retries, conflicting_changeset, conflicting_error_message,
                   calls, sleeps>>

\* variant: a failed extraction is caught and the time-out error raised
Recheck_SwallowsExtraction ==
    /\ pc = "recheck"
    /\ max_rechecks' = max_rechecks - 1
    /\ IF max_rechecks' <= 0
       THEN LET r == get_ongoing_change_id_from_error(conflicting_error_message)
            IN /\ outcome' = Raised(AWSMPUtilsException(TimedOutText(r.value)))
               /\ pc' = "done"
       ELSE /\ pc' = "loop"
            /\ outcome' = outcome
    /\ UNCHANGED <<change_set, max_rechecks_arg, conflict_wait_period,
                   retries, conflicting_changeset, conflicting_error_message,
                   calls, sleeps>>

\* variant: the exhaustion test is max_rechecks < 0
Recheck_LateExhaustion ==
    /\ pc = "recheck"
    /\ max_rechecks' = max_rechecks - 1
    /\ IF max_rechecks' < 0
       THEN LET r == get_ongoing_change_id_from_error(conflicting_error_message)
            IN /\ outcome' = IF r.raised
                             THEN Raised(r.error)
                             ELSE Raised(AWSMPUtilsException(TimedOutText(r.value)))
               /\ pc' = "done"
       ELSE /\ pc' = "loop"
            /\ outcome' = outcome
    /\ UNCHANGED <<change_set, max_rechecks_arg, conflict_wait_period,
                   retries, conflicting_changeset, conflicting_error_message,
                   calls, sleeps>>

\* max_rechecks -= 1 and the exhaustion test (180-192)
Recheck ==
    /\ pc = "recheck"
    /\ max_rechecks' = max_rechecks - 1
    /\ IF max_rechecks' <= 0
       THEN LET r == get_ongoing_change_id_from_error(conflicting_error_message)
            IN /\ outcome' = IF r.raised
                             THEN Raised(r.error)
                             ELSE Raised(AWSMPUtilsException(TimedOutText(r.value)))
               /\ pc' = "done"
       ELSE /\ pc' = "loop"
            /\ outcome' = outcome
    /\ UNCHANGED <<change_set, max_rechecks_arg, conflict_wait_period,
                   retries, conflicting_changeset, conflicting_error_message,
                   calls, sleeps>>

\* the state on entry, retries = 3 (143-148, 158)
InitSubmit ==
    /\ pc = "loop"
    /\ change_set \in ChangeSets
    /\ max_rechecks_arg \in 0..MaxRechecks
    /\ max_rechecks = max_rechecks_arg
    /\ conflict_wait_period \in 0..MaxWait
    /\ retries = 3
    /\ conflicting_changeset = FALSE
    /\ conflicting_error_message = <<>>
    /\ calls = <<>>
    /\ sleeps = <<>>
    /\ outcome = NoOutcome

Init ==
    InitSubmit /\ ExtractIdle /\ DocIdle /\ LookupIdle /\ ConfigIdle /\ RestIdle

Next ==
    \/ LoopHead /\ UNCHANGED exceptSubmit
    \/ CallReturns /\ UNCHANGED exceptSubmit
    \/ CallConflicts /\ UNCHANGED exceptSubmit
    \/ CallFails /\ UNCHANGED exceptSubmit
    \/ AfterTry /\ UNCHANGED exceptSubmit
    \/ Sleep /\ UNCHANGED exceptSubmit
    \/ Recheck /\ UNCHANGED exceptSubmit

Spec == Init /\ [][Next]_vars

\* the interpreter runs the function to its end: every step that can be
\* taken is taken
FairSpec == Spec /\ WF_vars(Next)

----------------------------------------------------------------------------
(* Properties of start_mp_change_set *)

Last(s) == s[Len(s)]

IsConflict(answer) ==
    /\ answer.kind = "raise"
    /\ answer.error.type = "ClientError"
    /\ answer.error.code = "ResourceInUseException"

IsOtherFailure(answer) == answer.kind = "raise" /\ ~IsConflict(answer)

\* the first k calls were all answered with a conflict
ConflictsUpTo(k) ==
    /\ k <= Len(calls)
    /\ \A i \in 1..k : IsConflict(calls[i].answer)

\* C1: a call that fails with anything but a ResourceInUseException
\* ClientError is the last call, its error is the error start_mp_change_set
\* raises, and no sleep comes after it.
C1_OtherFailurePropagates ==
    \A i \in 1..Len(calls) :
        IsOtherFailure(calls[i].answer) =>
            /\ i = Len(calls)
            /\ pc = "done"
            /\ outcome = Raised(calls[i].answer.error)
            /\ \A j \in 1..Len(sleeps) : sleeps[j].after < i

\* a failure that is no ClientError at all, after two conflicts
C1_Witness ==
    /\ pc = "done"
    /\ Len(calls) = 3
    /\ ConflictsUpTo(2)
    /\ IsOtherFailure(calls[3].answer)
    /\ calls[3].answer.error.type # "ClientError"
    /\ Len(sleeps) = 2

\* C2: k conflicts followed by a success, 1 <= k < max_rechecks: after the
\* k-th conflict the function calls the client again, and once call k+1 has
\* succeeded the function has returned that response after k+1 > 1 calls.
C2_ConflictThenSuccess ==
    /\ [](\A k \in 1..MaxRechecks :
            (/\ k < max_rechecks_arg
             /\ Len(calls) = k + 1
             /\ ConflictsUpTo(k)
             /\ calls[k + 1].answer.kind = "return")
            => /\ pc = "done"
               /\ outcome = Returned(calls[k + 1].answer.response)
               /\ Len(calls) > 1)
    /\ \A k \in 1..MaxRechecks :
          (Len(calls) = k /\ ConflictsUpTo(k) /\ k < max_rechecks_arg)
              ~> (Len(calls) = k + 1)

\* the last recheck that is still allowed ends in a success
C2_Witness ==
    /\ pc = "done"
    /\ max_rechecks_arg = 3
    /\ Len(calls) = 3
    /\ ConflictsUpTo(2)
    /\ outcome = Returned([ChangeSetId |-> "cs2"])

\* C3: every call answered with a conflict naming a 25-character token:
\* the function ends with the time-out error naming the token of the latest
\* conflict, after at least two calls when max_rechecks >= 2.
C3_TimeoutNamesLatestToken ==
    (/\ pc = "done"
     /\ Len(calls) >= 1
     /\ \A i \in 1..Len(calls) :
           /\ IsConflict(calls[i].answer)
           /\ \E t \in Tokens : calls[i].answer.error.text = LockedBy(t))
    => /\ \E t \in Tokens :
           /\ Last(calls).answer.error.text = LockedBy(t)
           /\ outcome = Raised(AWSMPUtilsException(TimedOutText(t)))
       /\ max_rechecks_arg >= 2 => Len(calls) >= 2

\* the earlier conflicts named another token than the latest one
C3_Witness ==
    /\ pc = "done"
    /\ max_rechecks_arg = 3
    /\ Len(calls) = 3
    /\ calls[1].answer.error.text = LockedBy(TokenA)
    /\ calls[2].answer.error.text = LockedBy(TokenA)
    /\ calls[3].answer.error.text = LockedBy(TokenB)
    /\ outcome = Raised(AWSMPUtilsException(TimedOutText(TokenB)))

\* C4: the first call succeeds: that response is returned, after exactly one
\* call with Catalog 'AWSMarketplace' and the caller's change set, and no
\* sleep.
C4_FirstCallSucceeds ==
    (Len(calls) >= 1 /\ calls[1].answer.kind = "return")
    => /\ pc = "done"
       /\ outcome = Returned(calls[1].answer.response)
       /\ Len(calls) = 1
       /\ calls[1].Catalog = "AWSMarketplace"
       /\ calls[1].ChangeSet = change_set
       /\ sleeps = <<>>

C4_Witness ==
    /\ pc = "done"
    /\ Len(calls) = 1
    /\ Len(change_set) = 2
    /\ outcome = Returned([ChangeSetId |-> "cs1"])

\* the pattern occurs nowhere in the text
PatternAbsent(text) == \A i \in 1..Len(text) : ~MatchAt(text, i)

IsTimedOut(error) ==
    /\ error.type = "AWSMPUtilsException"
    /\ Len(error.text) >= 2
    /\ error.text[2] = " Timed out waiting for "

\* C5: max_rechecks used up on a conflict whose message the pattern does not
\* match: the function ends with the extraction error carrying that message,
\* not with the time-out error.
C5_ExtractionErrorOnBadMessage ==
    (/\ pc = "done"
     /\ Len(calls) >= 1
     /\ IsConflict(Last(calls).answer)
     /\ PatternAbsent(Last(calls).answer.error.text))
    => /\ outcome = Raised(AWSMPUtilsException(
                       ExtractErrorText(StrError(Last(calls).answer.error))))
       /\ ~IsTimedOut(outcome.error)

\* an earlier conflict carried a well-formed token, the latest one does not
C5_Witness ==
    /\ pc = "done"
    /\ Len(calls) = 2
    /\ calls[1].answer.error.text = LockedBy(TokenA)
    /\ calls[2].answer.error.text = ShortToken
    /\ outcome.kind = "raise"
    /\ outcome.error.text[1] =
           "Unable to extract changeset id from aws err response: "

----------------------------------------------------------------------------
(* get_ongoing_change_id_from_error on assembled messages *)

\* what a message is assembled from: the literal, word runs of 24, 25 and 1
\* characters, and a separator
MessagePieces ==
    {ChangeSetsLiteral, Rep("a", ChangeIdLen - 1), Rep("b", ChangeIdLen),
     <<"a">>, <<" ">>}

AppendPiece ==
    /\ ~extracted.called
    /\ pieces < MaxPieces
    /\ \E p \in MessagePieces : message' = message \o p
    /\ pieces' = pieces + 1
    /\ UNCHANGED extracted

\* the call get_ongoing_change_id_from_error(message)
Extract ==
    /\ ~extracted.called
    /\ extracted' = [called |-> TRUE,
                     result |-> get_ongoing_change_id_from_error(message)]
    /\ UNCHANGED <<message, pieces>>

InitExtract ==
    SubmitIdle /\ ExtractIdle /\ DocIdle /\ LookupIdle /\ ConfigIdle /\ RestIdle

NextExtract ==
    \/ AppendPiece /\ UNCHANGED exceptExtract
    \/ Extract /\ UNCHANGED exceptExtract

SpecExtract == InitExtract /\ [][NextExtract]_vars

\* the literal 'change sets: ' stands at position i of m
LiteralAt(m, i) ==
    /\ i + Len(ChangeSetsLiteral) - 1 <= Len(m)
    /\ \A k \in 1..Len(ChangeSetsLiteral) : m[i + k - 1] = ChangeSetsLiteral[k]

\* the number of word characters in a row from position j of m on
RECURSIVE WordRun(_, _)
WordRun(m, j) ==
    IF j > Len(m) \/ ~IsWord(m[j]) THEN 0 ELSE 1 + WordRun(m, j + 1)

TokenStart(i) == i + Len(ChangeSetsLiteral)

\* the literal at i is followed by a token of exactly 25 word characters
ExactTokenAt(m, i) == LiteralAt(m, i) /\ WordRun(m, TokenStart(i)) = ChangeIdLen

\* the literal at i is followed by at least 25 word characters
LongEnoughAt(m, i) == LiteralAt(m, i) /\ WordRun(m, TokenStart(i)) >= ChangeIdLen

FirstThat(m, P(_, _)) ==
    CHOOSE i \in 1..Len(m) : P(m, i) /\ \A k \in 1..(i - 1) : ~P(m, k)

TokenAt(m, i) == [k \in 1..ChangeIdLen |-> m[TokenStart(i) + k - 1]]

ExtractionFailed(r, m) ==
    /\ r.raised
    /\ r.error.type = "AWSMPUtilsException"
    /\ r.error.text =
           <<"Unable to extract changeset id from aws err response: ">> \o m

\* C6 as stated: the token is returned when the literal is followed by
\* exactly 25 word characters (first such occurrence), and the extraction
\* fails otherwise, also for a token shorter or longer than 25.
C6_ExactlyTwentyFive ==
    extracted.called =>
        IF \E i \in 1..Len(message) : ExactTokenAt(message, i)
        THEN /\ ~extracted.result.raised
             /\ extracted.result.value =
                    TokenAt(message, FirstThat(message, ExactTokenAt))
        ELSE ExtractionFailed(extracted.result, message)

\* C6 amended: the first 25 word characters after the first occurrence of
\* the literal that is followed by at least 25 word characters are returned
\* (a longer token is cut to 25 characters, not rejected); the extraction
\* fails exactly when no occurrence is followed by 25 word characters.
C6_AtLeastTwentyFive ==
    extracted.called =>
        IF \E i \in 1..Len(message) : LongEnoughAt(message, i)
        THEN /\ ~extracted.result.raised
             /\ extracted.result.value =
                    TokenAt(message, FirstThat(message, LongEnoughAt))
        ELSE ExtractionFailed(extracted.result, message)

\* a token of 26 word characters: its first 25 are returned
C6_Witness ==
    /\ extracted.called
    /\ message = ChangeSetsLiteral \o Rep("a", ChangeIdLen + 1)
    /\ extracted.result = [raised |-> FALSE, value |-> TokenA, error |-> NoError]

----------------------------------------------------------------------------
(* create_restrict_version_change_doc, called several times *)

\* characters of an identifier: an ordinary one and the two json.dumps escapes
IdChars == {"a", Quote, Backslash}

RECURSIVE StringsUpTo(_)
StringsUpTo(n) ==
    IF n = 0 THEN {<<>>}
    ELSE LET shorter == StringsUpTo(n - 1)
         IN shorter \cup {Append(w, c) : w \in shorter, c \in IdChars}

EntityIds == {<<"e", "1">>, <<Quote, "e">>}
DeliveryOptionIds == StringsUpTo(MaxIdLen) \cup {PyNone}

BuildDoc ==
    /\ Len(docs) < MaxDocs
    /\ \E e \in EntityIds, d \in DeliveryOptionIds :
        docs' = Append(docs,
                       [entity_id |-> e, delivery_option_id |-> d,
                        doc |-> create_restrict_version_change_doc(e, d)])

InitDoc ==
    SubmitIdle /\ ExtractIdle /\ DocIdle /\ LookupIdle /\ ConfigIdle /\ RestIdle

NextDoc ==
    BuildDoc /\ UNCHANGED exceptDoc

SpecDoc == InitDoc /\ [][NextDoc]_vars

(* Decoding JSON text, to read Details back *)

NoParse == [ok |-> FALSE, value |-> <<>>, next |-> 0]

\* the characters of a JSON string from position i on, up to the closing
\* quote; acc is what has been decoded so far
RECURSIVE ParseStringBody(_, _, _)
ParseStringBody(t, i, acc) ==
    IF i > Len(t) THEN NoParse
    ELSE IF t[i] = Quote THEN [ok |-> TRUE, value |-> acc, next |-> i + 1]
    ELSE IF t[i] = Backslash
         THEN IF i + 1 <= Len(t) /\ t[i + 1] \in {Quote, Backslash}
              THEN ParseStringBody(t, i + 2, Append(acc, t[i + 1]))
              ELSE NoParse
    ELSE ParseStringBody(t, i + 1, Append(acc, t[i]))

\* a JSON string or null at position i
ParseValue(t, i) ==
    IF i <= Len(t) /\ t[i] = Quote THEN ParseStringBody(t, i + 1, <<>>)
    ELSE IF i + 3 <= Len(t) /\ SubSeq(t, i, i + 3) = <<"n", "u", "l", "l">>
         THEN [ok |-> TRUE, value |-> PyNone, next |-> i + 4]
    ELSE NoParse

RECURSIVE SkipSpaces(_, _)
SkipSpaces(t, i) ==
    IF i <= Len(t) /\ t[i] = " " THEN SkipSpaces(t, i + 1) ELSE i

Expect(t, i, c) == i <= Len(t) /\ t[i] = c

\* json.loads of an object with one key whose value is a list of one
\* string or null: [ok, key, item]
JsonLoadsDetails(t) ==
    LET bad == [ok |-> FALSE, key |-> <<>>, item |-> <<>>]
        k == ParseValue(t, 2)
        colon == SkipSpaces(t, k.next)
        open == SkipSpaces(t, colon + 1)
        v == ParseValue(t, open + 1)
    IN IF ~Expect(t, 1, "{") \/ ~k.ok \/ k.value = PyNone THEN bad
       ELSE IF ~Expect(t, colon, ":") \/ ~Expect(t, open, "[") \/ ~v.ok THEN bad
       ELSE IF ~Expect(t, v.next, "]") \/ ~Expect(t, v.next + 1, "}")
               \/ Len(t) # v.next + 1 THEN bad
       ELSE [ok |-> TRUE, key |-> k.value, item |-> v.value]

\* C8: every document built has ChangeType 'RestrictDeliveryOptions', Entity
\* {AmiProduct@1.0, entity_id} and Details decoding to
\* {DeliveryOptionIds: [delivery_option_id]}; equal inputs give equal
\* documents, and a later call changes no earlier result.
C8_RestrictDocument ==
    /\ [](\A i \in 1..Len(docs) :
            /\ docs[i].doc.ChangeType = "RestrictDeliveryOptions"
            /\ docs[i].doc.Entity =
                   [Type |-> "AmiProduct@1.0", Identifier |-> docs[i].entity_id]
            /\ JsonLoadsDetails(docs[i].doc.Details) =
                   [ok |-> TRUE, key |-> DeliveryOptionIdsKey,
                    item |-> docs[i].delivery_option_id]
            /\ \A j \in 1..Len(docs) :
                   (/\ docs[j].entity_id = docs[i].entity_id
                    /\ docs[j].delivery_option_id = docs[i].delivery_option_id)
                   => docs[j].doc = docs[i].doc)
    /\ [][\A i \in 1..Len(docs) : docs'[i] = docs[i]]_vars

\* two calls with the same inputs, the id holding a quote and a backslash
C8_Witness ==
    /\ Len(docs) = 2
    /\ docs[1].delivery_option_id = <<Quote, Backslash>>
    /\ docs[2].delivery_option_id = <<Quote, Backslash>>
    /\ docs[1].entity_id = docs[2].entity_id
    /\ docs[1].doc.Details =
           <<"{", Quote>> \o DeliveryOptionIdsKey
               \o <<Quote, ":", " ", "[", Quote, Backslash, Quote,
                    Backslash, Backslash, Quote, "]", "}">>

----------------------------------------------------------------------------
(* get_image_delivery_option_id *)

\* the versions of details that have a source with the given Image:
\* Versions[?Sources[?Image=='{ami_id}']]
VersionsWithImage(details, image) ==
    LET HasImage(v) == \E k \in 1..Len(v.Sources) : v.Sources[k].Image = image
    IN SelectSeq(details, HasImage)

\* Versions[?DeliveryOptions[?SourceId=='{source_id}']]
VersionsWithSourceId(details, source_id) ==
    LET HasSourceId(v) ==
            \E k \in 1..Len(v.DeliveryOptions) :
                v.DeliveryOptions[k].SourceId = source_id
    IN SelectSeq(details, HasSourceId)

\* ... | [0].Sources | [0].Id : null when a list on the way is empty
FirstSourceId(versions) ==
    IF versions = <<>> THEN PyNone
    ELSE IF versions[1].Sources = <<>> THEN PyNone
    ELSE versions[1].Sources[1].Id

\* ... | [0].DeliveryOptions | [0].Id
FirstDeliveryOptionId(versions) ==
    IF versions = <<>> THEN PyNone
    ELSE IF versions[1].DeliveryOptions = <<>> THEN PyNone
    ELSE versions[1].DeliveryOptions[1].Id

get_image_delivery_option_id(details, image) ==
    LET source_id == FirstSourceId(VersionsWithImage(details, image))
    IN IF source_id = PyNone \/ source_id = <<>>
       THEN PyNone
       ELSE FirstDeliveryOptionId(VersionsWithSourceId(details, source_id))

Images == {<<"a", "m", "i", "1">>, <<"a", "m", "i", "2">>}
SourceIds == {<<"s", "1">>, <<"s", "2">>}
OptionIds == {<<"d", "1">>, <<"d", "2">>}

RECURSIVE CountSources(_)
CountSources(details) ==
    IF details = <<>> THEN 0
    ELSE Len(Head(details).Sources) + CountSources(Tail(details))

RECURSIVE CountOptions(_)
CountOptions(details) ==
    IF details = <<>> THEN 0
    ELSE Len(Head(details).DeliveryOptions) + CountOptions(Tail(details))

\* the describe_entity answer grows by a version, a source, a delivery option
AddVersion ==
    /\ ~lookup.called
    /\ Len(entity) < MaxVersions
    /\ entity' = Append(entity, [Sources |-> <<>>, DeliveryOptions |-> <<>>])
    /\ UNCHANGED <<ami_id, lookup>>

AddSource ==
    /\ ~lookup.called
    /\ entity # <<>>
    /\ CountSources(entity) < MaxSources
    /\ \E image \in Images, id \in SourceIds :
        entity' = [entity EXCEPT ![Len(entity)].Sources =
                       Append(@, [Image |-> image, Id |-> id])]
    /\ UNCHANGED <<ami_id, lookup>>

AddDeliveryOption ==
    /\ ~lookup.called
    /\ entity # <<>>
    /\ CountOptions(entity) < MaxOptions
    /\ \E id \in OptionIds, source_id \in SourceIds :
        entity' = [entity EXCEPT ![Len(entity)].DeliveryOptions =
                       Append(@, [Id |-> id, SourceId |-> source_id])]
    /\ UNCHANGED <<ami_id, lookup>>

\* the call get_image_delivery_option_id(client, entity_id, ami_id)
Lookup ==
    /\ ~lookup.called
    /\ \E image \in Images :
        /\ ami_id' = image
        /\ lookup' = [called |-> TRUE,
                      result |-> get_image_delivery_option_id(entity, image)]
    /\ UNCHANGED entity

InitLookup ==
    SubmitIdle /\ ExtractIdle /\ DocIdle /\ LookupIdle /\ ConfigIdle /\ RestIdle

NextLookup ==
    \/ AddVersion /\ UNCHANGED exceptLookup
    \/ AddSource /\ UNCHANGED exceptLookup
    \/ AddDeliveryOption
           /\ UNCHANGED exceptLookup
    \/ Lookup /\ UNCHANGED exceptLookup

SpecLookup == InitLookup /\ [][NextLookup]_vars

\* source k of version v carries the image looked for
MatchingSource(v, k) ==
    /\ v \in 1..Len(entity)
    /\ k \in 1..Len(entity[v].Sources)
    /\ entity[v].Sources[k].Image = ami_id

SomeSourceMatches ==
    \E v \in 1..Len(entity) : \E k \in 1..Len(entity[v].Sources) :
        MatchingSource(v, k)

\* id is the Id of a delivery option that refers to a source with the image
\* looked for
OptionOfMatchingSource(id) ==
    \E v \in 1..Len(entity) : \E k \in 1..Len(entity[v].Sources) :
        /\ MatchingSource(v, k)
        /\ \E w \in 1..Len(entity) : \E j \in 1..Len(entity[w].DeliveryOptions) :
              /\ entity[w].DeliveryOptions[j].Id = id
              /\ entity[w].DeliveryOptions[j].SourceId = entity[v].Sources[k].Id

\* C9: an id the lookup returns is the Id of a delivery option whose SourceId
\* is the Id of a source with Image = ami_id, also for versions with several
\* sources and delivery options; without a source with that image the result
\* is None.
C9_ReturnsOptionOfMatchingSource ==
    lookup.called =>
        IF SomeSourceMatches
        THEN lookup.result # PyNone => OptionOfMatchingSource(lookup.result)
        ELSE lookup.result = PyNone

----------------------------------------------------------------------------
(* The shared options and get_config.  A configuration value is a one-element
   sequence holding its text, so that it can be told from None. *)

ConfigKeys == {"config_file", "profile", "log_level", "no_color", "region"}

default_config_file == <<"~/.config/aws_mp_utils/default.yaml">>
CustomPath == <<"custom.yaml">>
Paths == {default_config_file, CustomPath}

\* logging.DEBUG, logging.INFO, logging.ERROR
LogDebug == <<"10">>
LogInfo == <<"20">>
LogError == <<"40">>

config_defaults ==
    [config_file |-> default_config_file,
     profile |-> <<"default">>,
     log_level |-> LogInfo,
     no_color |-> <<"False">>,
     region |-> <<"us-east-1">>]

\* what a flag sets when it is given: --config-file, --profile, --no-color,
\* --region; for log_level one of --debug, --info, --quiet
CliValue(k, level) ==
    CASE k = "config_file" -> CustomPath
      [] k = "profile" -> <<"prod">>
      [] k = "no_color" -> <<"True">>
      [] k = "region" -> <<"eu-west-1">>
      [] OTHER -> level

CommandLines ==
    {[k \in given |-> CliValue(k, level)] :
        given \in SUBSET ConfigKeys, level \in {LogDebug, LogInfo, LogError}}

\* what the YAML file sets for a key
FileValue(k) ==
    CASE k = "config_file" -> <<"other.yaml">>
      [] k = "profile" -> <<"fileprofile">>
      [] k = "no_color" -> <<"True">>
      [] k = "region" -> <<"ap-south-1">>
      [] k = "log_level" -> <<"30">>
      [] OTHER -> <<"?">>

FileContents == {[k \in keys |-> FileValue(k)] : keys \in SUBSET ConfigKeys}
UnknownKeyContent == [k \in {"profile", "colour"} |-> FileValue(k)]

NoFile == [exists |-> FALSE, values |-> <<>>]
File(values) == [exists |-> TRUE, values |-> values]

\* the value click passes for an option: the flag's value when given, else
\* the option's default (False for the is_flag option --no-color, the
\* flag_value of --info, which has default=True, for log_level, None else)
ClickValue(args, k) ==
    IF k \in DOMAIN args THEN args[k]
    ELSE IF k = "no_color" THEN <<"False">>
    ELSE IF k = "log_level" THEN LogInfo
    ELSE PyNone

\* process_shared_options(context.obj, kwargs)
process_shared_options(args) == [k \in ConfigKeys |-> ClickValue(args, k)]

\* config_file_path = cli_context['config_file'] or default_config_file
config_file_path(cli_context) ==
    IF cli_context["config_file"] # PyNone /\ cli_context["config_file"] # <<>>
    THEN cli_context["config_file"]
    ELSE default_config_file

\* yaml.safe_load of the file, {} when it is not found
config_values(cli_context) ==
    LET path == config_file_path(cli_context)
    IN IF files[path].exists THEN files[path].values ELSE <<>>

\* the keys whose value in the context is not None
cli_keys(cli_context) == {k \in DOMAIN cli_context : cli_context[k] # PyNone}

\* ChainMap(cli_values, config_values, config_defaults)[k]
ChainMapGet(cli_context, k) ==
    IF k \in cli_keys(cli_context) THEN cli_context[k]
    ELSE IF k \in DOMAIN config_values(cli_context)
         THEN config_values(cli_context)[k]
    ELSE config_defaults[k]

\* aws_mp_utils_config(**data): exit code 1 on a key the tuple does not have
get_config(cli_context) ==
    LET keys == cli_keys(cli_context) \cup DOMAIN config_values(cli_context)
                    \cup DOMAIN config_defaults
    IN IF keys \subseteq ConfigKeys
       THEN [called |-> TRUE, exit_code |-> 0,
             data |-> [k \in ConfigKeys |-> ChainMapGet(cli_context, k)]]
       ELSE [called |-> TRUE, exit_code |-> 1, data |-> <<>>]

\* the command starts: process_shared_options(context.obj, kwargs)
ProcessSharedOptions ==
    /\ context_obj = <<>>
    /\ context_obj' = process_shared_options(cli_args)
    /\ UNCHANGED <<cli_args, files, config_data>>

\* config_data = get_config(context.obj)
GetConfig ==
    /\ context_obj # <<>>
    /\ ~config_data.called
    /\ config_data' = get_config(context_obj)
    /\ UNCHANGED <<cli_args, files, context_obj>>

\* a command line and the files on disk; --config-file names an existing
\* file (click.Path(exists=True))
InitConfig ==
    /\ SubmitIdle /\ ExtractIdle /\ DocIdle /\ LookupIdle /\ RestIdle
    /\ cli_args \in CommandLines
    /\ \E d \in {NoFile} \cup {File(c) : c \in FileContents \cup {UnknownKeyContent}},
          c \in {File(v) : v \in FileContents} :
          files = [p \in Paths |-> IF p = default_config_file THEN d ELSE c]
    /\ context_obj = <<>>
    /\ config_data = NoConfig

NextConfig ==
    \/ ProcessSharedOptions
           /\ UNCHANGED exceptConfig
    \/ GetConfig /\ UNCHANGED exceptConfig

SpecConfig == InitConfig /\ [][NextConfig]_vars

\* the file get_config reads: the one --config-file names, else the default
FileRead ==
    LET path == IF "config_file" \in DOMAIN cli_args
                THEN cli_args["config_file"] ELSE default_config_file
    IN IF files[path].exists THEN files[path].values ELSE <<>>

\* C10: each key of the returned configuration has the command-line value
\* when its flag was given, else the value of the config file when the file
\* defines the key, else the built-in default.
C10_FlagsOverFileOverDefaults ==
    (config_data.called /\ config_data.exit_code = 0) =>
        \A k \in ConfigKeys :
            config_data.data[k] =
                IF k \in DOMAIN cli_args THEN cli_args[k]
                ELSE IF k \in DOMAIN FileRead THEN FileRead[k]
                ELSE config_defaults[k]

----------------------------------------------------------------------------
(* Counters, sleeps and termination of start_mp_change_set *)

Max(a, b) == IF a >= b THEN a ELSE b

\* every call made so far was answered with a conflict
PersistentConflict == calls # <<>> /\ ConflictsUpTo(Len(calls))

\* the sleeps made after call i and before the next call
SleepsAfter(i) == {j \in 1..Len(sleeps) : sleeps[j].after = i}

\* C13: a conflict received while rechecks remain leaves retries as it is,
\* does not end the function, and exactly one sleep lies between it and the
\* next call; under a persistent conflict max_rechecks = N > 3 gives more
\* than 3 calls.
C13_ConflictKeepsAttempts ==
    /\ [][(pc = "after_try" /\ IsConflict(Last(calls).answer))
              => retries' = retries]_vars
    /\ [](\A k \in 1..Len(calls) :
            (ConflictsUpTo(k) /\ k < max_rechecks_arg)
            => /\ Len(calls) = k => pc # "done"
               /\ Len(calls) > k => Cardinality(SleepsAfter(k)) = 1)
    /\ []((pc = "done" /\ PersistentConflict /\ max_rechecks_arg > 3)
            => Len(calls) > 3)

\* five conflicts in a row with max_rechecks = 5: five calls, retries still 3
C13_Witness ==
    /\ pc = "done"
    /\ max_rechecks_arg = 5
    /\ PersistentConflict
    /\ Len(calls) = 5
    /\ Len(sleeps) = 5
    /\ retries = 3

RECURSIVE TotalSlept(_)
TotalSlept(ss) ==
    IF ss = <<>> THEN 0 ELSE Head(ss).period + TotalSlept(Tail(ss))

\* C14 as stated: at most max_rechecks sleeps, so at most
\* max_rechecks * conflict_wait_period slept.
C14_AtMostMaxRechecksSleeps ==
    /\ Len(sleeps) <= max_rechecks_arg
    /\ TotalSlept(sleeps) <= max_rechecks_arg * conflict_wait_period

\* C14 amended: at most max(1, max_rechecks) sleeps, so at most
\* max(1, max_rechecks) * conflict_wait_period slept: with max_rechecks = 0
\* the first conflict is still followed by one sleep.
C14_AtMostOneOrMaxRechecksSleeps ==
    /\ Len(sleeps) <= Max(1, max_rechecks_arg)
    /\ TotalSlept(sleeps) <= Max(1, max_rechecks_arg) * conflict_wait_period

\* max_rechecks = 0: one sleep of a full period before the failure
C14_Witness ==
    /\ pc = "done"
    /\ max_rechecks_arg = 0
    /\ conflict_wait_period = 1
    /\ Len(sleeps) = 1
    /\ TotalSlept(sleeps) = 1

\* C15: every sleep lasts exactly conflict_wait_period, a period of 0
\* included; with max_rechecks = 0 a conflict ends in a failure and no sleep
\* of another period has been made.
C15_SleepsTheConfiguredPeriod ==
    /\ \A j \in 1..Len(sleeps) : sleeps[j].period = conflict_wait_period
    /\ (pc = "done" /\ max_rechecks_arg = 0 /\ PersistentConflict)
           => outcome.kind = "raise"

\* max_rechecks = 0, conflict_wait_period = 0: a sleep of length 0
C15_Witness ==
    /\ pc = "done"
    /\ max_rechecks_arg = 0
    /\ conflict_wait_period = 0
    /\ PersistentConflict
    /\ sleeps = <<[period |-> 0, after |-> 1]>>
    /\ outcome.kind = "raise"

(* The ways start_mp_change_set ends *)

EndsWithSuccess == outcome.kind = "return" /\ outcome.response \in Responses

EndsWithConflictTimeout ==
    /\ outcome.kind = "raise"
    /\ outcome.error.type = "AWSMPUtilsException"
    /\ \E id \in Tokens : outcome.error.text = TimedOutText(id)

EndsWithExtractionError ==
    /\ outcome.kind = "raise"
    /\ outcome.error.type = "AWSMPUtilsException"
    /\ outcome.error.text =
           <<"Unable to extract changeset id from aws err response: ">>
               \o conflicting_error_message

EndsWithGenericError ==
    /\ outcome.kind = "raise"
    /\ outcome.error.type = "AWSMPUtilsException"
    /\ outcome.error.text = <<"Unable to complete successfully the mp change.">>

EndsWithUpstreamError ==
    /\ outcome.kind = "raise"
    /\ calls # <<>>
    /\ IsOtherFailure(Last(calls).answer)
    /\ outcome.error = Last(calls).answer.error

Count(b) == IF b THEN 1 ELSE 0

\* C16: the function terminates, it never makes more than
\* max(1, max_rechecks) calls, and it ends in exactly one of: success,
\* conflict time-out, extraction error, generic error, upstream error.
C16_TerminatesInOneOutcome ==
    /\ <>(pc = "done")
    /\ [](Len(calls) <= Max(1, max_rechecks_arg))
    /\ [](pc = "done" =>
             Count(EndsWithSuccess) + Count(EndsWithConflictTimeout)
                 + Count(EndsWithExtractionError) + Count(EndsWithGenericError)
                 + Count(EndsWithUpstreamError) = 1)

\* four conflicts with max_rechecks = 4, the last message unparsable
C16_Witness ==
    /\ pc = "done"
    /\ max_rechecks_arg = 4
    /\ Len(calls) = 4
    /\ EndsWithExtractionError

\* C19: retries is 3 in every state and the generic error is never raised.
C19_RetriesStaysThree ==
    /\ retries = 3
    /\ ~EndsWithGenericError
    /\ pc = "done" => outcome.kind \in {"return", "raise"}

\* ended after more than 3 calls, retries untouched
C19_Witness ==
    /\ pc = "done"
    /\ Len(calls) = 4
    /\ EndsWithConflictTimeout
    /\ retries = 3

\* C20: under a persistent conflict the function fails after exactly
\* max(1, max_rechecks) calls and as many sleeps, one sleep after each call,
\* the last sleep being followed by the failure.
C20_PersistentConflictCounts ==
    (pc = "done" /\ PersistentConflict)
    => /\ outcome.kind = "raise"
       /\ Len(calls) = Max(1, max_rechecks_arg)
       /\ Len(sleeps) = Len(calls)
       /\ \A i \in 1..Len(sleeps) : sleeps[i].after = i

\* max_rechecks = 0: one call, one sleep, failure
C20_Witness ==
    /\ pc = "done"
    /\ max_rechecks_arg = 0
    /\ PersistentConflict
    /\ Len(calls) = 1
    /\ Len(sleeps) = 1
    /\ sleeps[1].after = 1
    /\ outcome.kind = "raise"

----------------------------------------------------------------------------
(* get_change_set_status *)

\* the upper-case letters of the modelled texts, with their lower case
LowerCase ==
    [c \in {"A", "C", "D", "E", "F", "G", "I", "L", "N", "P", "R", "S", "U", "Y"} |->
        CASE c = "A" -> "a"
          [] c = "C" -> "c"
          [] c = "D" -> "d"
          [] c = "E" -> "e"
          [] c = "F" -> "f"
          [] c = "G" -> "g"
          [] c = "I" -> "i"
          [] c = "L" -> "l"
          [] c = "N" -> "n"
          [] c = "P" -> "p"
          [] c = "R" -> "r"
          [] c = "S" -> "s"
          [] c = "U" -> "u"
          [] c = "Y" -> "y"]

\* variant: the character is left as it is
lower_char_Unchanged(c) == c

\* str.lower() on one character
lower_char(c) == IF c \in DOMAIN LowerCase THEN LowerCase[c] ELSE c

\* str.lower()
lower(text) == [i \in 1..Len(text) |-> lower_char(text[i])]

\* 'if response and 'Status' in response': None and {} are falsy
get_change_set_status(resp) ==
    IF ~resp.none /\ DOMAIN resp.fields # {} /\ "Status" \in DOMAIN resp.fields
    THEN lower(resp.fields["Status"])
    ELSE PyNone

\* 'Status':'PREPARING'|'APPLYING'|'SUCCEEDED'|'CANCELLED'|'FAILED'
RemoteStatuses ==
    {<<"P", "R", "E", "P", "A", "R", "I", "N", "G">>,
     <<"A", "P", "P", "L", "Y", "I", "N", "G">>,
     <<"S", "U", "C", "C", "E", "E", "D", "E", "D">>,
     <<"C", "A", "N", "C", "E", "L", "L", "E", "D">>,
     <<"F", "A", "I", "L", "E", "D">>}

StatusChars == {"A", "a", "_"}

RECURSIVE TextsUpTo(_)
TextsUpTo(n) ==
    IF n = 0 THEN {<<>>}
    ELSE LET shorter == TextsUpTo(n - 1)
         IN shorter \cup {Append(w, c) : w \in shorter, c \in StatusChars}

StatusTexts == RemoteStatuses \cup TextsUpTo(MaxStatusLen)

\* the dicts describe_change_set may answer with: Status and ChangeSetId,
\* each present or not
StatusDicts ==
    {[k \in keys |-> IF k = "Status" THEN text ELSE <<"1", "2", "3">>] :
        keys \in SUBSET {"Status", "ChangeSetId"}, text \in StatusTexts}

InitStatus ==
    /\ SubmitIdle /\ ExtractIdle /\ DocIdle /\ LookupIdle /\ ConfigIdle
    /\ HelmIdle /\ CommandIdle /\ GenIdle
    /\ change_set_response \in
           {NoneResponse} \cup {[none |-> FALSE, fields |-> d] : d \in StatusDicts}
    /\ status = NoStatus

\* the call get_change_set_status(client, change_set_id)
GetStatus ==
    /\ ~status.called
    /\ status' = [called |-> TRUE, result |-> get_change_set_status(change_set_response)]
    /\ UNCHANGED change_set_response

NextStatus == GetStatus /\ UNCHANGED exceptStatus

SpecStatus == InitStatus /\ [][NextStatus]_vars

HasStatus == ~change_set_response.none /\ "Status" \in DOMAIN change_set_response.fields

\* what each remote status is reported as
ReportedAs(text) ==
    CASE text = <<"P", "R", "E", "P", "A", "R", "I", "N", "G">> ->
             <<"p", "r", "e", "p", "a", "r", "i", "n", "g">>
      [] text = <<"A", "P", "P", "L", "Y", "I", "N", "G">> ->
             <<"a", "p", "p", "l", "y", "i", "n", "g">>
      [] text = <<"S", "U", "C", "C", "E", "E", "D", "E", "D">> ->
             <<"s", "u", "c", "c", "e", "e", "d", "e", "d">>
      [] text = <<"C", "A", "N", "C", "E", "L", "L", "E", "D">> ->
             <<"c", "a", "n", "c", "e", "l", "l", "e", "d">>
      [] text = <<"F", "A", "I", "L", "E", "D">> ->
             <<"f", "a", "i", "l", "e", "d">>
      [] OTHER -> text

\* C12: the result is the Status in lower case: the five remote statuses
\* are reported as preparing, applying, succeeded, cancelled, failed, and any
\* Status keeps its length and has no upper-case letter left; a None or
\* empty answer, or one without Status, gives None.
C12_LowerCasedStatus ==
    status.called =>
        IF HasStatus
        THEN LET text == change_set_response.fields["Status"] IN
             /\ status.result # PyNone
             /\ Len(status.result) = Len(text)
             /\ \A i \in 1..Len(text) : status.result[i] \notin DOMAIN LowerCase
             /\ text \in RemoteStatuses => status.result = ReportedAs(text)
             /\ \A i \in 1..Len(text) :
                    text[i] \notin DOMAIN LowerCase => status.result[i] = text[i]
        ELSE status.result = PyNone

C12_Witness ==
    /\ status.called
    /\ HasStatus
    /\ change_set_response.fields["Status"] = <<"C", "A", "N", "C", "E", "L", "L", "E", "D">>
    /\ status.result = <<"c", "a", "n", "c", "e", "l", "l", "e", "d">>

----------------------------------------------------------------------------
(* get_helm_delivery_option_id *)

\* The search expression is the text
\*   Versions[?VersionTitle=='{version_title}'] | [0]
\*       .DeliveryOptions[?Type=='Helm'] | [0].Id
\* with version_title pasted between two single quotes. A JMESPath raw string
\* ends at the first single quote, so a quote inside version_title ends the
\* literal early. What follows it is then the rest of the title and the text
\* "'] | [0]...": for the titles modelled here (letters, digits, quotes) that
\* is a number, a name or a further literal where ']' or an operator must
\* stand, or a literal that is never closed, and the expression is rejected
\* with an exception.
ExpressionParses(title) == \A i \in 1..Len(title) : title[i] # "'"

\* Versions[?VersionTitle=='...']
VersionsWithTitle(details, title) ==
    SelectSeq(details, LAMBDA version : version.VersionTitle = title)

\* DeliveryOptions[?Type=='Helm']
HelmOptions(version) ==
    SelectSeq(version.DeliveryOptions, LAMBDA option : option.Type = "Helm")

\* jmespath.search(...): '| [0]' of an empty list is null, and every step on
\* null gives null
get_helm_delivery_option_id(details, title) ==
    IF ~ExpressionParses(title)
    THEN [raised |-> TRUE, result |-> PyNone]
    ELSE LET versions == VersionsWithTitle(details, title) IN
         IF versions = <<>>
         THEN [raised |-> FALSE, result |-> PyNone]
         ELSE LET found == HelmOptions(versions[1]) IN
              IF found = <<>>
              THEN [raised |-> FALSE, result |-> PyNone]
              ELSE [raised |-> FALSE, result |-> found[1].Id]

VersionTitles == {<<"v", "1">>, <<"v", "2">>, <<"v", "'", "1">>}
OptionTypes == {"Helm", "Container"}

\* the describe_entity answer grows by a version, by a delivery option
AddHelmVersion ==
    /\ ~helm_lookup.called
    /\ Len(helm_entity) < MaxVersions
    /\ \E title \in VersionTitles :
        helm_entity' = Append(helm_entity,
                              [VersionTitle |-> title, DeliveryOptions |-> <<>>])
    /\ UNCHANGED <<version_title, helm_lookup>>

AddHelmOption ==
    /\ ~helm_lookup.called
    /\ helm_entity # <<>>
    /\ CountOptions(helm_entity) < MaxHelmOptions
    /\ \E id \in OptionIds, type \in OptionTypes :
        helm_entity' = [helm_entity EXCEPT ![Len(helm_entity)].DeliveryOptions =
                            Append(@, [Id |-> id, Type |-> type])]
    /\ UNCHANGED <<version_title, helm_lookup>>

\* the call get_helm_delivery_option_id(client, entity_id, version_title)
HelmLookup ==
    /\ ~helm_lookup.called
    /\ \E title \in VersionTitles :
        /\ version_title' = title
        /\ helm_lookup' =
               [called |-> TRUE,
                raised |-> get_helm_delivery_option_id(helm_entity, title).raised,
                result |-> get_helm_delivery_option_id(helm_entity, title).result]
    /\ UNCHANGED helm_entity

InitHelm ==
    /\ SubmitIdle /\ ExtractIdle /\ DocIdle /\ LookupIdle /\ ConfigIdle
    /\ StatusIdle /\ HelmIdle /\ CommandIdle /\ GenIdle

NextHelm ==
    \/ AddHelmVersion /\ UNCHANGED exceptHelm
    \/ AddHelmOption /\ UNCHANGED exceptHelm
    \/ HelmLookup /\ UNCHANGED exceptHelm

SpecHelm == InitHelm /\ [][NextHelm]_vars

\* version i is the first one titled version_title
FirstTitled(i) ==
    /\ i \in 1..Len(helm_entity)
    /\ helm_entity[i].VersionTitle = version_title
    /\ \A j \in 1..(i - 1) : helm_entity[j].VersionTitle # version_title

\* option k of version i is that version's first Helm option
FirstHelm(i, k) ==
    /\ k \in 1..Len(helm_entity[i].DeliveryOptions)
    /\ helm_entity[i].DeliveryOptions[k].Type = "Helm"
    /\ \A j \in 1..(k - 1) : helm_entity[i].DeliveryOptions[j].Type # "Helm"

\* the result the lookup is to give
HelmResultAsDescribed ==
    /\ \A i \in 1..Len(helm_entity) :
           FirstTitled(i) =>
               /\ \A k \in 1..Len(helm_entity[i].DeliveryOptions) :
                      FirstHelm(i, k) =>
                          helm_lookup.result = helm_entity[i].DeliveryOptions[k].Id
               /\ (\A k \in 1..Len(helm_entity[i].DeliveryOptions) : ~FirstHelm(i, k))
                      => helm_lookup.result = PyNone
    /\ (\A i \in 1..Len(helm_entity) : ~FirstTitled(i))
           => helm_lookup.result = PyNone

\* C17: the lookup returns, for every version_title: the Id of the first
\* Helm delivery option of the first version with that title, None when there
\* is no such version or it has no Helm option.
C17_FirstHelmOfFirstTitledVersion ==
    helm_lookup.called => ~helm_lookup.raised /\ HelmResultAsDescribed

\* what the model does give: the described result for every version_title
\* without a single quote
HelmLookupOnQuoteFreeTitle ==
    helm_lookup.called /\ ExpressionParses(version_title) =>
        ~helm_lookup.raised /\ HelmResultAsDescribed

\* a product has a version with the title looked up, with a Helm option, and
\* the lookup raises
HelmLookupRaisesOnQuote ==
    /\ helm_lookup.called
    /\ helm_lookup.raised
    /\ \E i \in 1..Len(helm_entity) :
           FirstTitled(i) /\ \E k \in 1..Len(helm_entity[i].DeliveryOptions) : FirstHelm(i, k)

\* the first titled version has no Helm option, a later one with the same
\* title has one, and the lookup gives None
HelmLookupIgnoresLaterVersion ==
    /\ helm_lookup.called
    /\ helm_lookup.result = PyNone
    /\ ~helm_lookup.raised
    /\ \E i \in 1..Len(helm_entity), j \in 1..Len(helm_entity) :
           /\ FirstTitled(i) /\ i < j
           /\ helm_entity[j].VersionTitle = version_title
           /\ \E k \in 1..Len(helm_entity[j].DeliveryOptions) : FirstHelm(j, k)

----------------------------------------------------------------------------
(* The command restrict-version *)

\* max_rechecks: int = 10, conflict_wait_period: int = 1800
DefaultMaxRechecks == 10
DefaultConflictWaitPeriod == 1800

\* click.IntRange(min=0), no default: None when the flag is not given
FlagValues == {NoFlag} \cup {[given |-> TRUE, value |-> v] : v \in 0..MaxFlag}

\* 'if max_rechecks:': None and 0 are falsy
Truthy(flag) == flag.given /\ flag.value # 0

\* echo_style(message, no_color, fg): click.echo or click.secho
Echoed(text, no_color, fg) == [message |-> text, styled |-> ~no_color, fg |-> fg]

\* str(error)
str_exception(error) ==
    IF error.type = "ClientError" THEN StrError(error) ELSE error.text

\* what the lookup of the delivery option id may give or raise
LookupValues == {<<"d", "1">>, PyNone}
LookupErrors ==
    {[type |-> "KeyError", code |-> "", text |-> <<"'DetailsDocument'">>],
     ClientError("ResourceNotFoundException", <<"n", "o", " ", "e", "1">>)}

\* how start_mp_change_set may end
SubmitErrors ==
    OtherErrors \cup
        {AWSMPUtilsException(TimedOutText(TokenA)),
         AWSMPUtilsException(ExtractErrorText(Unparsable))}

CommandEntityId == <<"e", "1">>

InitCommand ==
    /\ SubmitIdle /\ ExtractIdle /\ DocIdle /\ LookupIdle /\ ConfigIdle
    /\ StatusIdle /\ HelmIdle /\ GenIdle
    /\ cmd_pc = "start"
    /\ \E m \in FlagValues, w \in FlagValues, c \in BOOLEAN :
        flags = [max_rechecks |-> m, conflict_wait_period |-> w, no_color |-> c]
    /\ lookup_answer = NoAnswer
    /\ options = NoOptions
    /\ submit_answer = NoOutcome
    /\ output = <<>>
    /\ exit_code = -1
    /\ trace = <<>>

\* process_shared_options, get_config, get_mp_client (91-99)
CommandConfigured ==
    /\ cmd_pc = "start"
    /\ cmd_pc' = "lookup"
    /\ trace' = Append(trace, "get_config")
    /\ UNCHANGED <<flags, lookup_answer, options, submit_answer, output, exit_code>>

\* get_config finds no usable configuration and leaves with sys.exit(1)
CommandConfigFails ==
    /\ cmd_pc = "start"
    /\ cmd_pc' = "done"
    /\ trace' = Append(trace, "get_config")
    /\ exit_code' = 1
    /\ UNCHANGED <<flags, lookup_answer, options, submit_answer, output>>

\* get_image_delivery_option_id returns (100-105)
CommandLookupReturns ==
    /\ cmd_pc = "lookup"
    /\ \E id \in LookupValues :
        lookup_answer' = [kind |-> "return", value |-> id, text |-> <<>>]
    /\ trace' = Append(trace, "get_image_delivery_option_id")
    /\ cmd_pc' = "build"
    /\ UNCHANGED <<flags, options, submit_answer, output, exit_code>>

\* variant: the handler reports the error and goes on
CommandLookupRaises_GoesOn ==
    /\ cmd_pc = "lookup"
    /\ \E error \in LookupErrors :
        /\ lookup_answer' =
               [kind |-> "raise", value |-> PyNone, text |-> str_exception(error)]
        /\ output' = output \o
               <<Echoed(<<"Unable to get delivery option id for the given product.">>,
                        flags.no_color, "red"),
                 Echoed(str_exception(error), flags.no_color, "red")>>
    /\ trace' = Append(trace, "get_image_delivery_option_id")
    /\ cmd_pc' = "build"
    /\ UNCHANGED <<flags, options, submit_answer, exit_code>>

\* get_image_delivery_option_id raises: two lines and sys.exit(1) (106-113)
CommandLookupRaises ==
    /\ cmd_pc = "lookup"
    /\ \E error \in LookupErrors :
        /\ lookup_answer' =
               [kind |-> "raise", value |-> PyNone, text |-> str_exception(error)]
        /\ output' = output \o
               <<Echoed(<<"Unable to get delivery option id for the given product.">>,
                        flags.no_color, "red"),
                 Echoed(str_exception(error), flags.no_color, "red")>>
    /\ trace' = Append(trace, "get_image_delivery_option_id")
    /\ exit_code' = 1
    /\ cmd_pc' = "done"
    /\ UNCHANGED <<flags, options, submit_answer>>

\* the keyword of one flag in options: set only when the flag is truthy
Keyword(flag) == IF Truthy(flag) THEN flag ELSE NoFlag

\* variant: a lookup that found nothing ends the command
CommandBuildOptions_StopsOnNone ==
    /\ cmd_pc = "build"
    /\ IF lookup_answer.value = PyNone
       THEN /\ exit_code' = 1
            /\ cmd_pc' = "done"
            /\ UNCHANGED options
       ELSE /\ options' =
                   [options EXCEPT
                       !.change_set =
                           <<create_restrict_version_change_doc(CommandEntityId,
                                                                lookup_answer.value)>>,
                       !.keywords =
                           [max_rechecks |-> Keyword(flags.max_rechecks),
                            conflict_wait_period |->
                                Keyword(flags.conflict_wait_period)]]
            /\ cmd_pc' = "submit"
            /\ UNCHANGED exit_code
    /\ UNCHANGED <<flags, lookup_answer, submit_answer, output, trace>>

\* change_doc and options (115-128)
CommandBuildOptions ==
    /\ cmd_pc = "build"
    /\ options' =
           [options EXCEPT
               !.change_set =
                   <<create_restrict_version_change_doc(CommandEntityId,
                                                        lookup_answer.value)>>,
               !.keywords =
                   [max_rechecks |-> Keyword(flags.max_rechecks),
                    conflict_wait_period |-> Keyword(flags.conflict_wait_period)]]
    /\ cmd_pc' = "submit"
    /\ UNCHANGED <<flags, lookup_answer, submit_answer, output, exit_code, trace>>

\* start_mp_change_set(**options): a parameter without keyword takes its
\* default
Called(opts) ==
    [opts EXCEPT
        !.called = TRUE,
        !.max_rechecks =
            IF opts.keywords.max_rechecks.given
            THEN opts.keywords.max_rechecks.value
            ELSE DefaultMaxRechecks,
        !.conflict_wait_period =
            IF opts.keywords.conflict_wait_period.given
            THEN opts.keywords.conflict_wait_period.value
            ELSE DefaultConflictWaitPeriod]

\* start_mp_change_set returns: the change set id is echoed (130-131, 141-142)
CommandSubmitReturns ==
    /\ cmd_pc = "submit"
    /\ options' = Called(options)
    /\ \E response \in Responses :
        /\ submit_answer' = Returned(response)
        /\ output' = Append(output,
                            Echoed(<<"Change set Id: ", response.ChangeSetId>>,
                                   flags.no_color, "green"))
    /\ trace' = Append(trace, "start_mp_change_set")
    /\ exit_code' = 0
    /\ cmd_pc' = "done"
    /\ UNCHANGED <<flags, lookup_answer>>

\* start_mp_change_set raises: two lines and sys.exit(1) (132-139)
CommandSubmitRaises ==
    /\ cmd_pc = "submit"
    /\ options' = Called(options)
    /\ \E error \in SubmitErrors :
        /\ submit_answer' = Raised(error)
        /\ output' = output \o
               <<Echoed(<<"Unable to start change set">>, flags.no_color, "red"),
                 Echoed(str_exception(error), flags.no_color, "red")>>
    /\ trace' = Append(trace, "start_mp_change_set")
    /\ exit_code' = 1
    /\ cmd_pc' = "done"
    /\ UNCHANGED <<flags, lookup_answer>>

NextCommand ==
    \/ CommandConfigured /\ UNCHANGED exceptCommand
    \/ CommandConfigFails /\ UNCHANGED exceptCommand
    \/ CommandLookupReturns /\ UNCHANGED exceptCommand
    \/ CommandLookupRaises /\ UNCHANGED exceptCommand
    \/ CommandBuildOptions /\ UNCHANGED exceptCommand
    \/ CommandSubmitReturns /\ UNCHANGED exceptCommand
    \/ CommandSubmitRaises /\ UNCHANGED exceptCommand

SpecCommand == InitCommand /\ [][NextCommand]_vars

Prints(text) == \E i \in 1..Len(output) : output[i].message = text

Calls(name) == \E i \in 1..Len(trace) : trace[i] = name

\* C11: a raising lookup ends the command with the error text printed, exit
\* code 1 and no submission; a raising submission ends it with that error
\* text printed and exit code 1; when both succeed the last line printed is
\* 'Change set Id: <ChangeSetId>' and the exit code is 0. No submission
\* comes before the lookup.
C11_RestrictVersionOutcomes ==
    /\ cmd_pc = "done" /\ lookup_answer.kind = "raise" =>
           /\ Prints(lookup_answer.text)
           /\ exit_code = 1
           /\ ~Calls("start_mp_change_set")
           /\ ~options.called
    /\ cmd_pc = "done" /\ lookup_answer.kind = "return"
                       /\ submit_answer.kind = "raise" =>
           /\ Prints(str_exception(submit_answer.error))
           /\ exit_code = 1
    /\ cmd_pc = "done" /\ lookup_answer.kind = "return"
                       /\ submit_answer.kind = "return" =>
           /\ output # <<>>
           /\ output[Len(output)].message =
                  <<"Change set Id: ", submit_answer.response.ChangeSetId>>
           /\ exit_code = 0
    /\ \A i \in 1..Len(trace) :
           trace[i] = "start_mp_change_set" =>
               \E j \in 1..(i - 1) : trace[j] = "get_image_delivery_option_id"
    /\ cmd_pc # "done" => exit_code = -1
    /\ options.called => lookup_answer.kind = "return"

\* each of the three ends has happened: here the failing lookup
C11_Witness ==
    /\ cmd_pc = "done"
    /\ lookup_answer.kind = "raise"
    /\ exit_code = 1
    /\ Len(output) = 2

\* the submission failed after a lookup that gave an id
CommandSubmissionFailed ==
    /\ cmd_pc = "done"
    /\ lookup_answer.kind = "return"
    /\ submit_answer.kind = "raise"
    /\ exit_code = 1

\* the change set id was printed
CommandSucceeded ==
    /\ cmd_pc = "done"
    /\ submit_answer.kind = "return"
    /\ exit_code = 0
    /\ Prints(<<"Change set Id: ", "cs1">>)

\* C18: start_mp_change_set is called with max_rechecks and
\* conflict_wait_period equal to the flags' values whenever the flags are
\* given, 0 included, and with 10 and 1800 only when they are not given.
C18_FlagValuesReachTheCall ==
    options.called =>
        /\ options.max_rechecks =
               IF flags.max_rechecks.given
               THEN flags.max_rechecks.value ELSE DefaultMaxRechecks
        /\ options.conflict_wait_period =
               IF flags.conflict_wait_period.given
               THEN flags.conflict_wait_period.value ELSE DefaultConflictWaitPeriod

\* what the command does: a flag given as 0 is handled as a flag not given
CommandDropsZeroFlags ==
    options.called =>
        /\ options.max_rechecks =
               IF flags.max_rechecks.given /\ flags.max_rechecks.value > 0
               THEN flags.max_rechecks.value ELSE DefaultMaxRechecks
        /\ options.conflict_wait_period =
               IF flags.conflict_wait_period.given
                  /\ flags.conflict_wait_period.value > 0
               THEN flags.conflict_wait_period.value ELSE DefaultConflictWaitPeriod

\* --max-rechecks 0 --conflict-wait-period 0 ends in a call with 10 and 1800
CommandZeroFlagsBecomeDefaults ==
    /\ options.called
    /\ flags.max_rechecks = [given |-> TRUE, value |-> 0]
    /\ flags.conflict_wait_period = [given |-> TRUE, value |-> 0]
    /\ options.max_rechecks = DefaultMaxRechecks
    /\ options.conflict_wait_period = DefaultConflictWaitPeriod

----------------------------------------------------------------------------
(* The command restrict-version after a lookup that found nothing *)

LookupFoundNothing ==
    lookup_answer.kind = "return" /\ lookup_answer.value = PyNone

\* the text {"DeliveryOptionIds": [null]}
DetailsOfNull ==
    <<"{", Quote>> \o DeliveryOptionIdsKey
        \o <<Quote, ":", " ", "[", "n", "u", "l", "l", "]", "}">>

\* C21: after a lookup that returned None the command ends only with the
\* submission made, and what it submits is one RestrictDeliveryOptions
\* document whose Details is {"DeliveryOptionIds": [null]}; between the
\* lookup and the submission it neither prints nor exits.
C21_NoneIsSubmitted ==
    LookupFoundNothing =>
        /\ cmd_pc = "done" =>
               /\ options.called
               /\ Calls("start_mp_change_set")
               /\ submit_answer.kind # "none"
        /\ cmd_pc \in {"build", "submit"} => exit_code = -1 /\ output = <<>>
        /\ cmd_pc \in {"submit", "done"} =>
               /\ Len(options.change_set) = 1
               /\ options.change_set[1].ChangeType = "RestrictDeliveryOptions"
               /\ options.change_set[1].Entity =
                      [Type |-> "AmiProduct@1.0", Identifier |-> CommandEntityId]
               /\ options.change_set[1].Details = DetailsOfNull
               /\ JsonLoadsDetails(options.change_set[1].Details) =
                      [ok |-> TRUE, key |-> DeliveryOptionIdsKey, item |-> PyNone]

C21_Witness ==
    /\ LookupFoundNothing
    /\ cmd_pc = "done"
    /\ options.called
    /\ options.change_set[1].Details = DetailsOfNull
    /\ submit_answer.kind = "return"
    /\ exit_code = 0

----------------------------------------------------------------------------
(* gen_add_delivery_options_changeset and gen_update_delivery_options_changeset,
   of changeset.py and of container.py *)

\* values json.dumps is given: a str or None, a bool, a list, a dict (its
\* pairs in the order the keys were inserted)
JStr(text) == [t |-> "str", s |-> text, items |-> <<>>]
JBool(b) ==
    [t |-> "bool",
     s |-> IF b THEN <<"t", "r", "u", "e">> ELSE <<"f", "a", "l", "s", "e">>,
     items |-> <<>>]
JList(values) == [t |-> "list", s |-> <<>>, items |-> values]
JDict(pairs) == [t |-> "dict", s |-> <<>>, items |-> pairs]
Pair(key, value) == [key |-> key, value |-> value]
JStrList(texts) == JList([i \in 1..Len(texts) |-> JStr(texts[i])])

\* json.dumps with its default separators ', ' and ': '
RECURSIVE dumps(_)
RECURSIVE DumpItems(_)
RECURSIVE DumpPairs(_)
dumps(v) ==
    CASE v.t = "str" -> JsonValue(v.s)
      [] v.t = "bool" -> v.s
      [] v.t = "list" -> <<"[">> \o DumpItems(v.items) \o <<"]">>
      [] v.t = "dict" -> <<"{">> \o DumpPairs(v.items) \o <<"}">>

DumpItems(values) ==
    IF values = <<>> THEN <<>>
    ELSE dumps(Head(values)) \o
         (IF Tail(values) = <<>> THEN <<>>
          ELSE <<",", " ">> \o DumpItems(Tail(values)))

DumpPairs(pairs) ==
    IF pairs = <<>> THEN <<>>
    ELSE <<Quote, Head(pairs).key, Quote, ":", " ">> \o dumps(Head(pairs).value) \o
         (IF Tail(pairs) = <<>> THEN <<>>
          ELSE <<",", " ">> \o DumpPairs(Tail(pairs)))

\* details of gen_add_delivery_options_changeset of changeset.py (299-322)
changeset_add_details(a) ==
    JDict(<<
        Pair("Version",
             JDict(<<Pair("VersionTitle", JStr(a.version_title)),
                     Pair("ReleaseNotes", JStr(a.release_notes))>>)),
        Pair("DeliveryOptions",
             JList(<<JDict(<<
                 Pair("DeliveryOptionTitle", JStr(a.delivery_option_title)),
                 Pair("Details",
                      JDict(<<Pair("HelmDeliveryOptionDetails",
                                   JDict(<<
                     Pair("CompatibleServices", JStrList(a.compatible_services)),
                     Pair("ContainerImages", JStrList(a.container_images)),
                     Pair("HelmChartUri", JStr(a.helm_chart_uri)),
                     Pair("Description", JStr(a.helm_chart_description)),
                     Pair("UsageInstructions", JStr(a.usage_instructions)),
                     Pair("QuickLaunchEnabled", JBool(a.quick_launch_enabled)),
                     Pair("MarketplaceServiceAccountName", JStr(a.marketplace_service_account_name)),
                     Pair("ReleaseName", JStr(a.release_name)),
                     Pair("Namespace", JStr(a.namespace)),
                     Pair("OverrideParameters", JList(a.override_parameters))>>))>>))>>)>>))>>)

\* gen_add_delivery_options_changeset of changeset.py: return [data] (291-325)
changeset_gen_add_delivery_options_changeset(a) ==
    <<[ChangeType |-> "AddDeliveryOptions",
     Entity |-> [Type |-> "ContainerProduct@1.0", Identifier |-> a.entity_id],
     Details |-> dumps(changeset_add_details(a))]>>

\* variant: the title stands beside the Id, as in the add document
changeset_update_details_TitleOutside(a) ==
    JDict(<<
        Pair("Version",
             JDict(<<Pair("VersionTitle", JStr(a.version_title)),
                     Pair("ReleaseNotes", JStr(a.release_notes))>>)),
        Pair("DeliveryOptions",
             JList(<<JDict(<<
                 Pair("Id", JStr(a.delivery_option_id)),
                 Pair("DeliveryOptionTitle", JStr(a.delivery_option_title)),
                 Pair("Details",
                      JDict(<<Pair("HelmDeliveryOptionDetails",
                                   JDict(<<
                     Pair("CompatibleServices", JStrList(a.compatible_services)),
                     Pair("ContainerImages", JStrList(a.container_images)),
                     Pair("HelmChartUri", JStr(a.helm_chart_uri)),
                     Pair("Description", JStr(a.helm_chart_description)),
                     Pair("UsageInstructions", JStr(a.usage_instructions)),
                     Pair("QuickLaunchEnabled", JBool(a.quick_launch_enabled)),
                     Pair("MarketplaceServiceAccountName", JStr(a.marketplace_service_account_name)),
                     Pair("ReleaseName", JStr(a.release_name)),
                     Pair("Namespace", JStr(a.namespace)),
                     Pair("OverrideParameters", JList(a.override_parameters))>>))>>))>>)>>))>>)

\* details of gen_update_delivery_options_changeset of changeset.py (359-383)
changeset_update_details(a) ==
    JDict(<<
        Pair("Version",
             JDict(<<Pair("VersionTitle", JStr(a.version_title)),
                     Pair("ReleaseNotes", JStr(a.release_notes))>>)),
        Pair("DeliveryOptions",
             JList(<<JDict(<<
                 Pair("Id", JStr(a.delivery_option_id)),
                 Pair("Details",
                      JDict(<<Pair("HelmDeliveryOptionDetails",
                                   JDict(<<
                     Pair("DeliveryOptionTitle", JStr(a.delivery_option_title)),
                     Pair("CompatibleServices", JStrList(a.compatible_services)),
                     Pair("ContainerImages", JStrList(a.container_images)),
                     Pair("HelmChartUri", JStr(a.helm_chart_uri)),
                     Pair("Description", JStr(a.helm_chart_description)),
                     Pair("UsageInstructions", JStr(a.usage_instructions)),
                     Pair("QuickLaunchEnabled", JBool(a.quick_launch_enabled)),
                     Pair("MarketplaceServiceAccountName", JStr(a.marketplace_service_account_name)),
                     Pair("ReleaseName", JStr(a.release_name)),
                     Pair("Namespace", JStr(a.namespace)),
                     Pair("OverrideParameters", JList(a.override_parameters))>>))>>))>>)>>))>>)

\* gen_update_delivery_options_changeset of changeset.py: return [data] (351-386)
changeset_gen_update_delivery_options_changeset(a) ==
    <<[ChangeType |-> "UpdateDeliveryOptions",
     Entity |-> [Type |-> "ContainerProduct@1.0", Identifier |-> a.entity_id],
     Details |-> dumps(changeset_update_details(a))]>>

\* details of gen_add_delivery_options_changeset of container.py (101-124)
container_add_details(a) ==
    JDict(<<
        Pair("Version",
             JDict(<<Pair("VersionTitle", JStr(a.version_title)),
                     Pair("ReleaseNotes", JStr(a.release_notes))>>)),
        Pair("DeliveryOptions",
             JList(<<JDict(<<
                 Pair("DeliveryOptionTitle", JStr(a.delivery_option_title)),
                 Pair("Details",
                      JDict(<<Pair("HelmDeliveryOptionDetails",
                                   JDict(<<
                     Pair("CompatibleServices", JStrList(a.compatible_services)),
                     Pair("ContainerImages", JStrList(a.container_images)),
                     Pair("HelmChartUri", JStr(a.helm_chart_uri)),
                     Pair("Description", JStr(a.helm_chart_description)),
                     Pair("UsageInstructions", JStr(a.usage_instructions)),
                     Pair("QuickLaunchEnabled", JBool(a.quick_launch_enabled)),
                     Pair("MarketplaceServiceAccountName", JStr(a.marketplace_service_account_name)),
                     Pair("ReleaseName", JStr(a.release_name)),
                     Pair("Namespace", JStr(a.namespace)),
                     Pair("OverrideParameters", JList(a.override_parameters))>>))>>))>>)>>))>>)

\* gen_add_delivery_options_changeset of container.py: return data (93-127)
container_gen_add_delivery_options_changeset(a) ==
    [ChangeType |-> "AddDeliveryOptions",
     Entity |-> [Type |-> "ContainerProduct@1.0", Identifier |-> a.entity_id],
     Details |-> dumps(container_add_details(a))]

\* details of gen_update_delivery_options_changeset of container.py (161-185)
container_update_details(a) ==
    JDict(<<
        Pair("Version",
             JDict(<<Pair("VersionTitle", JStr(a.version_title)),
                     Pair("ReleaseNotes", JStr(a.release_notes))>>)),
        Pair("DeliveryOptions",
             JList(<<JDict(<<
                 Pair("Id", JStr(a.delivery_option_id)),
                 Pair("Details",
                      JDict(<<Pair("HelmDeliveryOptionDetails",
                                   JDict(<<
                     Pair("DeliveryOptionTitle", JStr(a.delivery_option_title)),
                     Pair("CompatibleServices", JStrList(a.compatible_services)),
                     Pair("ContainerImages", JStrList(a.container_images)),
                     Pair("HelmChartUri", JStr(a.helm_chart_uri)),
                     Pair("Description", JStr(a.helm_chart_description)),
                     Pair("UsageInstructions", JStr(a.usage_instructions)),
                     Pair("QuickLaunchEnabled", JBool(a.quick_launch_enabled)),
                     Pair("MarketplaceServiceAccountName", JStr(a.marketplace_service_account_name)),
                     Pair("ReleaseName", JStr(a.release_name)),
                     Pair("Namespace", JStr(a.namespace)),
                     Pair("OverrideParameters", JList(a.override_parameters))>>))>>))>>)>>))>>)

\* gen_update_delivery_options_changeset of container.py: return data (153-188)
container_gen_update_delivery_options_changeset(a) ==
    [ChangeType |-> "UpdateDeliveryOptions",
     Entity |-> [Type |-> "ContainerProduct@1.0", Identifier |-> a.entity_id],
     Details |-> dumps(container_update_details(a))]

Services == {<<"E", "K", "S">>, <<"E", "C", "S">>}

RECURSIVE ServiceLists(_)
ServiceLists(n) ==
    IF n = 0 THEN {<<>>}
    ELSE LET shorter == ServiceLists(n - 1)
         IN shorter \cup {Append(w, x) : w \in shorter, x \in Services}

\* override_parameters: no parameter, or one with a key and a flag
OverrideParameterLists ==
    {<<>>,
     <<JDict(<<Pair("Key", JStr(<<"k", "1">>)),
               Pair("Metadata", JDict(<<Pair("Obfuscate", JBool(FALSE))>>))>>)>>}

GenArguments ==
    {[NoArguments EXCEPT
         !.entity_id = e, !.version_title = <<"1", ".", "2">>,
         !.release_notes = notes, !.delivery_option_title = <<"c", "1">>,
         !.compatible_services = services,
         !.container_images = <<<<"r", ":", "1">>>>,
         !.helm_chart_uri = <<"r", ":", "h">>,
         !.helm_chart_description = <<"d">>, !.usage_instructions = <<"u">>,
         !.quick_launch_enabled = quick,
         !.marketplace_service_account_name = <<"s", "a">>,
         !.release_name = name, !.namespace = <<"n", "s">>,
         !.override_parameters = overrides,
         !.delivery_option_id = id] :
        e \in EntityIds, notes \in {<<"n">>, <<Quote, Backslash>>},
        services \in ServiceLists(MaxServices), quick \in BOOLEAN,
        name \in {<<"r">>, PyNone}, overrides \in OverrideParameterLists,
        id \in {<<"d", "1">>, <<"d", "2">>}}

InitGen ==
    /\ SubmitIdle /\ ExtractIdle /\ DocIdle /\ LookupIdle /\ ConfigIdle
    /\ StatusIdle /\ HelmIdle /\ CommandIdle
    /\ gen_args \in GenArguments
    /\ gen_called = "none"
    /\ changeset_result = <<>>
    /\ container_result = NoDocument

\* both modules' gen_add_delivery_options_changeset, on the same arguments
GenAdd ==
    /\ gen_called = "none"
    /\ gen_called' = "add"
    /\ changeset_result' = changeset_gen_add_delivery_options_changeset(gen_args)
    /\ container_result' = container_gen_add_delivery_options_changeset(gen_args)
    /\ UNCHANGED gen_args

\* both modules' gen_update_delivery_options_changeset, on the same arguments
GenUpdate ==
    /\ gen_called = "none"
    /\ gen_called' = "update"
    /\ changeset_result' =
           changeset_gen_update_delivery_options_changeset(gen_args)
    /\ container_result' =
           container_gen_update_delivery_options_changeset(gen_args)
    /\ UNCHANGED gen_args

NextGen ==
    \/ GenAdd /\ UNCHANGED exceptGen
    \/ GenUpdate /\ UNCHANGED exceptGen

SpecGen == InitGen /\ [][NextGen]_vars

\* C22: what changeset.py returns is a sequence of exactly one element, and
\* that element is the document container.py returns for the same arguments;
\* the document has ChangeType AddDeliveryOptions resp. UpdateDeliveryOptions,
\* Entity type ContainerProduct@1.0 and the entity_id given.
C22_ChangesetWrapsContainerDocument ==
    gen_called # "none" =>
        /\ Len(changeset_result) = 1
        /\ changeset_result[1] = container_result
        /\ changeset_result = <<container_result>>
        /\ container_result.ChangeType =
               (IF gen_called = "add" THEN "AddDeliveryOptions"
                ELSE "UpdateDeliveryOptions")
        /\ container_result.Entity =
               [Type |-> "ContainerProduct@1.0", Identifier |-> gen_args.entity_id]
        /\ container_result.Details # <<>>

\* the update functions were called with an entity id holding a quote, two
\* services and an override parameter
C22_Witness ==
    /\ gen_called = "update"
    /\ Len(changeset_result) = 1
    /\ changeset_result[1].ChangeType = "UpdateDeliveryOptions"
    /\ gen_args.entity_id = <<Quote, "e">>
    /\ Len(gen_args.compatible_services) = 2
    /\ gen_args.override_parameters # <<>>
    /\ container_result.Details = changeset_result[1].Details

====
